---- MODULE Spec2Model ----
(***************************************************************************)
(* A model of paodate.Date (src/paodate.py): one mutable value wrapping a  *)
(* naive civil date-time `dt`, its delta-based field setters, its derived  *)
(* views and its conversion to and from epoch seconds in the local zone.   *)
(*                                                                         *)
(* The arithmetic the class delegates to (datetime, timedelta, calendar,   *)
(* dateutil.relativedelta, time.mktime, datetime.fromtimestamp) is         *)
(* modelled by what those primitives compute; each operator names the      *)
(* call site in paodate.py that reaches it.                                *)
(***************************************************************************)
EXTENDS Integers, Sequences, FiniteSets, TLC

\* Sequencing: F applied to the value of v, v being evaluated once.
Then(v, F(_)) == CHOOSE r \in {F(w) : w \in {v}} : TRUE

(***************************************************************************)
(* Calendar primitives (proleptic Gregorian ordinal, as datetime has it).  *)
(***************************************************************************)

\* calendar.isleap / datetime._is_leap
IsLeap(y) == y % 4 = 0 /\ (y % 100 # 0 \/ y % 400 = 0)

\* calendar.mdays[1..12]
MDays == <<31, 28, 31, 30, 31, 30, 31, 31, 30, 31, 30, 31>>

\* Days of the year before the first of each month, non-leap year.
DaysBeforeMonthTable == <<0, 31, 59, 90, 120, 151, 181, 212, 243, 273, 304, 334>>

\* calendar.monthrange(year, month)[1]
MonthRangeDays(y, m) == MDays[m] + (IF m = 2 /\ IsLeap(y) THEN 1 ELSE 0)

\* Number of days before January 1st of year y.
DaysBeforeYear(y) ==
    LET y1 == y - 1
    IN  y1 * 365 + (y1 \div 4) - (y1 \div 100) + (y1 \div 400)

\* Number of days in year y preceding the first day of month m.
DaysBeforeMonth(y, m) ==
    DaysBeforeMonthTable[m] + (IF m > 2 /\ IsLeap(y) THEN 1 ELSE 0)

\* date.toordinal(): 0001-01-01 is day 1.
Ymd2Ord(y, m, d) == DaysBeforeYear(y) + DaysBeforeMonth(y, m) + d

\* Lengths of the 400-, 100- and 4-year cycles, in days.
DI400Y == DaysBeforeYear(401)
DI100Y == DaysBeforeYear(101)
DI4Y   == DaysBeforeYear(5)

\* The largest ordinal datetime accepts: 9999-12-31.
MaxOrdinal == Ymd2Ord(9999, 12, 31)

\* date.fromordinal(): the <<year, month, day>> of ordinal n, by the
\* 400/100/4/1-year cycle decomposition.
Ord2Ymd(n) ==
    LET n0   == n - 1
        n400 == n0 \div DI400Y
        r400 == n0 % DI400Y
        n100 == r400 \div DI100Y
        r100 == r400 % DI100Y
        n4   == r100 \div DI4Y
        r4   == r100 % DI4Y
        n1   == r4 \div 365
        r1   == r4 % 365
        year == n400 * 400 + 1 + n100 * 100 + n4 * 4 + n1
    IN  IF n1 = 4 \/ n100 = 4
        THEN <<year - 1, 12, 31>>
        ELSE LET leapyear == n1 = 3 /\ (n4 # 24 \/ n100 = 3)
                 guess    == (r1 + 50) \div 32
                 before(mm) == DaysBeforeMonthTable[mm]
                                  + (IF mm > 2 /\ leapyear THEN 1 ELSE 0)
                 month    == IF before(guess) > r1 THEN guess - 1 ELSE guess
             IN  <<year, month, r1 - before(month) + 1>>

\* date.weekday(): Monday is 0, Sunday is 6.
Weekday(ord) == (ord + 6) % 7

(***************************************************************************)
(* datetime values: records of the seven civil fields.                     *)
(***************************************************************************)

\* datetime(year, month, day, hour, minute, second, microsecond)
DateTime(y, mo, d, h, mi, s, us) ==
    [year |-> y, month |-> mo, day |-> d,
     hour |-> h, minute |-> mi, second |-> s, microsecond |-> us]

\* The fields of a valid datetime (the constructor raises ValueError otherwise).
ValidDateTime(x) ==
    /\ x.year >= 1 /\ x.year <= 9999
    /\ x.month \in 1..12
    /\ x.day \in 1..MonthRangeDays(x.year, x.month)
    /\ x.hour \in 0..23
    /\ x.minute \in 0..59
    /\ x.second \in 0..59
    /\ x.microsecond >= 0 /\ x.microsecond <= 999999

ToOrdinal(x) == Ymd2Ord(x.year, x.month, x.day)

\* Seconds since midnight of x.
SecondOfDay(x) == x.hour * 3600 + x.minute * 60 + x.second

\* cmp(a, b) on naive datetimes: -1, 0 or 1, by the field tuples.
CmpDateTime(a, b) ==
    LET oa == ToOrdinal(a)
        ob == ToOrdinal(b)
        sa == SecondOfDay(a)
        sb == SecondOfDay(b)
    IN  IF oa # ob THEN (IF oa < ob THEN -1 ELSE 1)
        ELSE IF sa # sb THEN (IF sa < sb THEN -1 ELSE 1)
        ELSE IF a.microsecond # b.microsecond
             THEN (IF a.microsecond < b.microsecond THEN -1 ELSE 1)
        ELSE 0

\* TimedeltaSum with the microsecond carry into the seconds forgotten.
TimedeltaSumNoCarry(x, days, seconds, microseconds) ==
    LET us  == x.microsecond + microseconds
        sec == SecondOfDay(x) + seconds
    IN  <<ToOrdinal(x) + days + (sec \div 86400), sec % 86400, us % 1000000>>

\* A timedelta is normalised to days, seconds in [0, 86400) and microseconds
\* in [0, 1000000); datetime + timedelta adds it to (ordinal, second of day,
\* microsecond) and carries.  The result is <<ordinal, second, microsecond>>.
TimedeltaSum(x, days, seconds, microseconds) ==
    LET us  == x.microsecond + microseconds
        sec == SecondOfDay(x) + seconds + (us \div 1000000)
    IN  <<ToOrdinal(x) + days + (sec \div 86400), sec % 86400, us % 1000000>>

\* datetime + timedelta(days, seconds, microseconds)
AddTimedelta(x, days, seconds, microseconds) ==
    Then(TimedeltaSum(x, days, seconds, microseconds), LAMBDA r :
    Then(Ord2Ymd(r[1]), LAMBDA ymd :
    DateTime(ymd[1], ymd[2], ymd[3],
             r[2] \div 3600, (r[2] % 3600) \div 60, r[2] % 60, r[3])))

\* datetime.replace(year = ..., month = ..., day = ...)
ReplaceDate(x, y, m, d) == [x EXCEPT !.year = y, !.month = m, !.day = d]

(***************************************************************************)
(* dateutil.relativedelta, restricted to the relative fields the class     *)
(* uses: years, months and days.                                           *)
(***************************************************************************)

Sign(n) == IF n < 0 THEN -1 ELSE 1
Abs(n) == IF n < 0 THEN -n ELSE n
Min(a, b) == IF a <= b THEN a ELSE b

\* relativedelta(years, months, days) after relativedelta._fix(): a month
\* count beyond +-11 is folded into the years, keeping its sign.
RelativeDelta(years, months, days) ==
    IF Abs(months) > 11
    THEN LET s == Sign(months)
         IN  [years  |-> years + ((months * s) \div 12) * s,
              months |-> ((months * s) % 12) * s,
              days   |-> days]
    ELSE [years |-> years, months |-> months, days |-> days]

\* RelativeTarget with the year left alone when the month wraps.
RelativeTargetNoCarry(x, rd) ==
    LET m0    == x.month + rd.months
        year  == x.year + rd.years
        month == IF m0 > 12 THEN m0 - 12 ELSE IF m0 < 1 THEN m0 + 12 ELSE m0
    IN  <<year, month, Min(MonthRangeDays(year, month), x.day)>>

\* RelativeTarget with the day kept as it is, however short the month.
RelativeTargetNoClamp(x, rd) ==
    LET m0    == x.month + rd.months
        year  == x.year + rd.years
                   + (IF m0 > 12 THEN 1 ELSE IF m0 < 1 THEN -1 ELSE 0)
        month == IF m0 > 12 THEN m0 - 12 ELSE IF m0 < 1 THEN m0 + 12 ELSE m0
    IN  <<year, month, x.day>>

\* The <<year, month, day>> relativedelta.__radd__ hands to replace():
\* the month is moved and wrapped into 1..12, and the day is cut down to
\* the length of the month arrived at.
RelativeTarget(x, rd) ==
    LET m0    == x.month + rd.months
        year  == x.year + rd.years
                   + (IF m0 > 12 THEN 1 ELSE IF m0 < 1 THEN -1 ELSE 0)
        month == IF m0 > 12 THEN m0 - 12 ELSE IF m0 < 1 THEN m0 + 12 ELSE m0
    IN  <<year, month, Min(MonthRangeDays(year, month), x.day)>>

\* datetime + relativedelta
AddRelativeDelta(x, rd) ==
    Then(RelativeTarget(x, rd), LAMBDA t :
    AddTimedelta(ReplaceDate(x, t[1], t[2], t[3]), rd.days, 0, 0))

(***************************************************************************)
(* The local zone: epoch seconds <-> naive local civil time.               *)
(* zone "fixed" keeps one UTC offset all year (TZ=CET-1); zone "dst" adds  *)
(* an hour from the last Sunday of March, 01:00 UTC, to the last Sunday of *)
(* October, 01:00 UTC (TZ=CET-1CEST,M3.5.0,M10.5.0/3).                     *)
(***************************************************************************)

Zones == {"fixed", "dst"}

\* The zone's standard offset east of UTC, in seconds: the module doctest
\* reads epoch 1234567890 (2009-02-13 23:31:30 UTC) as 00:31:30 local.
StdOffset == 3600

EpochOrdinal == Ymd2Ord(1970, 1, 1)

\* Epoch seconds of a civil time read as UTC (calendar.timegm).
UtcSeconds(x) == (ToOrdinal(x) - EpochOrdinal) * 86400 + SecondOfDay(x)

\* The civil time, read as UTC, of epoch seconds t (time.gmtime).
UtcCivil(t) ==
    Then(Ord2Ymd(EpochOrdinal + (t \div 86400)), LAMBDA ymd :
    Then(t % 86400, LAMBDA sec :
    DateTime(ymd[1], ymd[2], ymd[3],
             sec \div 3600, (sec % 3600) \div 60, sec % 60, 0)))

\* The day of month of the last Sunday of month m of year y.
LastSunday(y, m) ==
    LET n == MonthRangeDays(y, m)
    IN  n - ((Weekday(Ymd2Ord(y, m, n)) + 1) % 7)

\* Whether summer time is in force at epoch seconds t.
IsDst(z, t) ==
    /\ z = "dst"
    /\ \E y \in {UtcCivil(t).year} :
           /\ t >= UtcSeconds(DateTime(y, 3, LastSunday(y, 3), 1, 0, 0, 0))
           /\ t < UtcSeconds(DateTime(y, 10, LastSunday(y, 10), 1, 0, 0, 0))

UtcOffset(z, t) == IF IsDst(z, t) THEN StdOffset + 3600 ELSE StdOffset

\* datetime.fromtimestamp(t) for integral t: the local civil time of t.
FromTimestamp(z, t) == Then(UtcOffset(z, t), LAMBDA off : UtcCivil(t + off))

\* time.mktime(x.timetuple()): the timetuple drops the microseconds and
\* carries tm_isdst = -1, so the C library picks the offset.  The result is
\* the SET of values it may return: the epoch seconds that read back as x;
\* for a wall-clock time repeated when the clocks go back these are two,
\* and for one skipped when they go forward either offset may be applied.
Mktime(z, x) ==
    LET naive == UtcSeconds(x)
        cands == {naive - StdOffset, naive - StdOffset - 3600}
        exact == {t \in cands : FromTimestamp(z, t) = [x EXCEPT !.microsecond = 0]}
    IN  IF exact # {} THEN exact ELSE cands

(***************************************************************************)
(* class Date: the accessors, as functions of the wrapped datetime.        *)
(***************************************************************************)

\* Date.__cmp__ between two Dates: cmp(self.dt, value.dt)
CmpDate(a, b) == CmpDateTime(a, b)

set_year(x, value) == [x EXCEPT !.year = value]

set_month(x, value) == AddRelativeDelta(x, RelativeDelta(0, value - x.month, 0))

\* get_week counting the weeks from 1.
get_week_one_based(x) == (ToOrdinal(x) - Ymd2Ord(x.year, 1, 1)) \div 7 + 1

get_week(x) == (ToOrdinal(x) - Ymd2Ord(x.year, 1, 1)) \div 7

set_week(x, value) == AddTimedelta(x, 7 * (value - get_week(x)), 0, 0)

\* set_day moving by the value itself instead of by its distance from the
\* current day.
set_day_absolute(x, value) == AddTimedelta(x, value, 0, 0)

set_day(x, value) == AddTimedelta(x, value - x.day, 0, 0)

set_hour(x, value) == AddTimedelta(x, 0, 3600 * (value - x.hour), 0)

set_minute(x, value) == AddTimedelta(x, 0, 60 * (value - x.minute), 0)

set_second(x, value) == AddTimedelta(x, 0, value - x.second, 0)

set_microsecond(x, value) == AddTimedelta(x, 0, 0, value - x.microsecond)

\* set_timestamp reading the epoch seconds as UTC (utcfromtimestamp).
set_timestamp_utc(z, x, value) == UtcCivil(value)

set_timestamp(z, x, value) == FromTimestamp(z, value)

\* days_in_month from the month table alone, leap years forgotten.
days_in_month_no_leap(x) == MDays[x.month]

days_in_month(x) == MonthRangeDays(x.year, x.month)

\* datetime.combine(date, time), a date being <<year, month, day>> and a
\* time <<hour, minute, second, microsecond>>.
Combine(d, t) == DateTime(d[1], d[2], d[3], t[1], t[2], t[3], t[4])

\* Date._get_date and Date._get_time: self.dt.date() and self.dt.time().
get_date(x) == <<x.year, x.month, x.day>>

get_time(x) == <<x.hour, x.minute, x.second, x.microsecond>>

\* set_date putting the clock back to midnight.
set_date_at_midnight(x, value) == Combine(value, <<0, 0, 0, 0>>)

set_date(x, value) == Combine(value, get_time(x))

set_time(x, value) == Combine(get_date(x), value)

\* The next statement F applied to the datetime v the last one left, unless
\* the last one raised: a v that is no valid datetime stands for the raise,
\* and is what the whole sequence gives.
ThenValid(v, F(_)) ==
    CHOOSE r \in {IF ValidDateTime(w) THEN F(w) ELSE w : w \in {v}} : TRUE

\* The offsets loop with days taken off before months.
DateInitDaysFirst(x, ago) ==
    ThenValid(set_year(x, x.year - ago[1]), LAMBDA a :
    ThenValid(set_day(a, a.day - ago[3]), LAMBDA b :
    ThenValid(set_month(b, b.month - ago[2]), LAMBDA c :
    ThenValid(set_hour(c, c.hour - ago[4]), LAMBDA d :
    ThenValid(set_minute(d, d.minute - ago[5]), LAMBDA e :
    set_second(e, e.second - ago[6]))))))

\* Date.__init__ on a datetime: self.dt = dt, then the six "ago" offsets
\* <<years, months, days, hours, minutes, seconds>> are subtracted in that
\* order, each through its field's setter.
DateInit(x, ago) ==
    ThenValid(set_year(x, x.year - ago[1]), LAMBDA a :
    ThenValid(set_month(a, a.month - ago[2]), LAMBDA b :
    ThenValid(set_day(b, b.day - ago[3]), LAMBDA c :
    ThenValid(set_hour(c, c.hour - ago[4]), LAMBDA d :
    ThenValid(set_minute(d, d.minute - ago[5]), LAMBDA e :
    set_second(e, e.second - ago[6]))))))

NoAgo == <<0, 0, 0, 0, 0, 0>>

\* Date(datetime(...)) with no offsets.
Date(x) == DateInit(x, NoAgo)

\* The module constant MAX = Date(datetime(2038, 1, 1)).
MAX == Date(DateTime(2038, 1, 1, 0, 0, 0, 0))

\* The module constant MIN = Date(0), in zone z.
MIN(z) == DateInit(FromTimestamp(z, 0), NoAgo)

\* What a call gives: the datetime it leaves in self.dt, or the exception
\* that leaves it, with the text put into its message.
Result(x) == [exc |-> "none", text |-> "", dt |-> x]

Raise(exc, text) ==
    [exc |-> exc, text |-> text,
     dt |-> DateTime(0, 0, 0, 0, 0, 0, 0)]

\* A value handed to Date(...): type(dt), its numeric components and
\* str(dt).
Input(type, seq, text) == [type |-> type, seq |-> seq, text |-> text]

\* The i-th positional argument of datetime(...), 0 where it is left out.
ArgOrZero(seq, i) == IF i <= Len(seq) THEN seq[i] ELSE 0

\* datetime(*seq) for a sequence of numbers: year, month and day are
\* required, hour, minute, second and microsecond default to 0, an eighth
\* argument is the tzinfo and may not be a number, and there is no ninth.
DatetimeOfSeq(seq) ==
    IF Len(seq) < 3 \/ Len(seq) > 7
    THEN Raise("TypeError", "")
    ELSE Then(DateTime(seq[1], seq[2], seq[3], ArgOrZero(seq, 4),
                       ArgOrZero(seq, 5), ArgOrZero(seq, 6), ArgOrZero(seq, 7)),
              LAMBDA x : IF ValidDateTime(x) THEN Result(x)
                         ELSE Raise("ValueError", ""))

\* The dispatch of Date.__init__ with no branch that raises: a value of any
\* other type is taken for no value, and gives the current time.
BaseInstantNoElse(z, now, dt) ==
    CASE dt.type = "NoneType" -> Result(now)
      [] dt.type \in {"float", "int", "long"} ->
            Result(FromTimestamp(z, dt.seq[1]))
      [] dt.type \in {"list", "tuple"} -> DatetimeOfSeq(dt.seq)
      [] dt.type = "date" -> Result(Combine(dt.seq, <<0, 0, 0, 0>>))
      [] OTHER -> Result(now)

\* The dispatch of Date.__init__ on type(dt): the datetime self.dt is bound
\* to before the offsets, or the exception raised.  now is what
\* datetime.now() gives.  The ValueError's message is a fixed text that
\* ends in "Got %s instead!" with str(dt) put in; the exceptions of the
\* library carry no text here.
BaseInstant(z, now, dt) ==
    CASE dt.type = "NoneType" -> Result(now)
      [] dt.type \in {"float", "int", "long"} ->
            Result(FromTimestamp(z, dt.seq[1]))
      [] dt.type \in {"list", "tuple"} -> DatetimeOfSeq(dt.seq)
      [] dt.type = "date" -> Result(Combine(dt.seq, <<0, 0, 0, 0>>))
      [] dt.type = "datetime" ->
            Result(DateTime(dt.seq[1], dt.seq[2], dt.seq[3], dt.seq[4],
                            dt.seq[5], dt.seq[6], dt.seq[7]))
      [] OTHER -> Raise("ValueError", "Got " \o dt.text \o " instead!")

\* The exception that leaves the offsets loop when one of its setters
\* raises: ValueError from replace(year = ...) and from relativedelta,
\* OverflowError from datetime + timedelta.
OffsetsError(x, ago) ==
    IF ValidDateTime(ThenValid(set_year(x, x.year - ago[1]),
                               LAMBDA a : set_month(a, a.month - ago[2])))
    THEN "OverflowError"
    ELSE "ValueError"

\* Date(dt, years_ago, ..., seconds_ago): the whole of Date.__init__.
DateNew(z, now, dt, ago) ==
    Then(BaseInstant(z, now, dt), LAMBDA b :
        IF b.exc # "none" THEN b
        ELSE Then(DateInit(b.dt, ago), LAMBDA x :
                 IF ValidDateTime(x) THEN Result(x)
                 ELSE Raise(OffsetsError(b.dt, ago), "")))

\* An operand of a comparison: its type, and its datetime if it is a Date.
Operand(type, x) == [type |-> type, dt |-> x]

\* The types whose own == answers False for an operand of another type.
EqAnsweringTypes == {"datetime", "date", "time", "timedelta"}

\* d < other and d == other for a Date d with dt = x.  Date has __cmp__ and
\* no rich comparison of its own, so the right operand's rich comparison
\* is asked first: for ==, datetime, date, time and timedelta answer False
\* to an operand that is not of their kind; every other path ends in
\* Date.__cmp__, which compares the datetimes of two Dates and raises
\* TypeError otherwise.
Compare(op, x, other) ==
    IF other.type = "Date"
    THEN IF op = "<"
         THEN (IF CmpDate(x, other.dt) < 0 THEN "True" ELSE "False")
         ELSE (IF CmpDate(x, other.dt) = 0 THEN "True" ELSE "False")
    ELSE IF op = "==" /\ other.type \in EqAnsweringTypes
         THEN "False"
         ELSE "TypeError"

\* get_timestamp with the comparison against MAX turned round.
get_timestamp_inverted(z, x) ==
    IF CmpDate(x, MAX) < 0 THEN Mktime(z, MAX) ELSE Mktime(z, x)

\* Date._get_timestamp: the set of values the read may return (a set
\* because of Mktime).  MAX.timestamp is itself read through the getter,
\* where MAX > MAX is false.
get_timestamp(z, x) ==
    IF CmpDate(x, MAX) > 0 THEN Mktime(z, MAX) ELSE Mktime(z, x)

start_of_day(x) == Date(DateTime(x.year, x.month, x.day, 0, 0, 0, 0))

end_of_day(x) == Date(DateTime(x.year, x.month, x.day, 23, 59, 59, 999999))

start_of_month(x) == Date(DateTime(x.year, x.month, 1, 0, 0, 0, 0))

end_of_month(x) ==
    Date(AddRelativeDelta(DateTime(x.year, x.month, 1, 23, 59, 59, 999999),
                          RelativeDelta(0, 1, -1)))

start_of_year(x) == Date(DateTime(x.year, 1, 1, 0, 0, 0, 0))

\* end_of_year with the step back by one day left out.
end_of_year_no_step_back(x) ==
    Date(AddRelativeDelta(DateTime(x.year, 1, 1, 23, 59, 59, 999999),
                          RelativeDelta(1, 0, 0)))

end_of_year(x) ==
    Date(AddRelativeDelta(DateTime(x.year, 1, 1, 23, 59, 59, 999999),
                          RelativeDelta(1, 0, -1)))

day_tuple(x) == <<start_of_day(x), end_of_day(x)>>

month_tuple(x) == <<start_of_month(x), end_of_month(x)>>

year_tuple(x) == <<start_of_year(x), end_of_year(x)>>

\* Date.__add__(timedelta(days, seconds, microseconds))
add(x, td) == Date(AddTimedelta(x, td[1], td[2], td[3]))

(***************************************************************************)
(* State.  Date objects live in numbered slots: slot 1 is the receiver d,  *)
(* slots 2 and 3 hold the Dates the last view accessor (or d + duration)   *)
(* returned.  Each slot holds the object's self.dt.                        *)
(***************************************************************************)

VARIABLES
    obj,    \* slot -> the Date's dt, or NoDate for a slot with no object
    ret,    \* the slots of the Dates the last accessor returned
    zone,   \* the local zone of the process
    last,   \* the last operation: its name, target slot, argument, obj before it,
            \* and what it gave: "ok", the answer of a comparison, or the
            \* exception raised and the text in its message
    ops     \* number of operations performed

vars == <<obj, ret, zone, last, ops>>

\* Number of operations in a run.
MaxOps == 2

Slots == 1..3

NoDate == DateTime(0, 0, 0, 0, 0, 0, 0)

\* The Dates a program holds a reference to.  The day and hour setters are
\* applied to each of them, the other setters to the receiver.
Targets == {1} \cup {ret[i] : i \in 1..Len(ret)}

\* The datetimes the receiver is constructed from.
InitDates ==
    { DateTime(2009, 1, 31, 0, 0, 0, 0),
      DateTime(2008, 2, 29, 12, 30, 45, 250),
      DateTime(1980, 6, 2, 11, 17, 36, 0),
      DateTime(2037, 12, 31, 23, 59, 59, 999999) }

\* The values handed to the setters: inside and outside each field's range.
MonthArgs == {0, 2, 13}
WeekArgs == {-1, 12, 53}
DayArgs == {0, 31, 258}
HourArgs == {10, 24}
MinuteArgs == {5, 60}
SecondArgs == {-1, 5}
MicrosecondArgs == {250, 1000000}

\* Epoch seconds strictly between MIN.timestamp and MAX.timestamp: the
\* doctests' 1234567890, one that reads 2009-10-25 02:30:00 where the clocks
\* go back, and the last one before MAX.
TimestampArgs == {1234567890, 1256430600, 2145913199}

\* timedelta(days = 2) and timedelta(microseconds = -1)
Durations == {<<2, 0, 0>>, <<0, 0, -1>>}

ViewKinds ==
    {"start_of_day", "end_of_day", "start_of_month", "end_of_month",
     "start_of_year", "end_of_year", "day_tuple", "month_tuple", "year_tuple"}

\* The Dates accessor `kind` builds from a Date whose dt is x.
ViewOf(kind, x) ==
    CASE kind = "start_of_day"   -> <<start_of_day(x)>>
      [] kind = "end_of_day"     -> <<end_of_day(x)>>
      [] kind = "start_of_month" -> <<start_of_month(x)>>
      [] kind = "end_of_month"   -> <<end_of_month(x)>>
      [] kind = "start_of_year"  -> <<start_of_year(x)>>
      [] kind = "end_of_year"    -> <<end_of_year(x)>>
      [] kind = "day_tuple"      -> day_tuple(x)
      [] kind = "month_tuple"    -> month_tuple(x)
      [] kind = "year_tuple"     -> year_tuple(x)

\* Returned with the receiver itself updated and handed back as the (first)
\* result.
ReturnedSelf(heap, xs) ==
    [heap |-> [k \in Slots |-> IF k <= Len(xs) THEN xs[k] ELSE heap[k]],
     ret  |-> [i \in 1..Len(xs) |-> i]]

\* Returning Date(...) objects: every Date(...) call makes a new object, so
\* the values xs go to slots of their own (those of an earlier result are
\* given up), and the receiver's slot is not written.
Returned(heap, xs) ==
    [heap |-> [k \in Slots |->
                 IF k = 1 THEN heap[1]
                 ELSE IF k - 1 <= Len(xs) THEN xs[k - 1] ELSE NoDate],
     ret  |-> [i \in 1..Len(xs) |-> i + 1]]

Init ==
    /\ zone \in Zones
    /\ \E x \in InitDates :
          obj = [k \in Slots |-> IF k = 1 THEN Date(x) ELSE NoDate]
    /\ ret = <<>>
    /\ last = [op |-> "init", target |-> 1, arg |-> 0, pre |-> obj,
               out |-> "ok", text |-> ""]
    /\ ops = 0

\* A setter call on the Date in slot o that leaves it with dt = new; a
\* result that is no valid datetime is the primitive raising, and the
\* assignment to self.dt not happening.
Assign(o, name, value, new) ==
    /\ ops < MaxOps
    /\ \E x \in {new} :
           /\ ValidDateTime(x)
           /\ obj' = [obj EXCEPT ![o] = x]
    /\ last' = [op |-> name, target |-> o, arg |-> value, pre |-> obj,
                out |-> "ok", text |-> ""]
    /\ ops' = ops + 1
    /\ UNCHANGED <<ret, zone>>

SetMonth ==
    \E o \in {1}, v \in MonthArgs : Assign(o, "month", v, set_month(obj[o], v))

SetWeek ==
    \E o \in {1}, v \in WeekArgs : Assign(o, "week", v, set_week(obj[o], v))

SetDay ==
    \E o \in Targets, v \in DayArgs : Assign(o, "day", v, set_day(obj[o], v))

SetHour ==
    \E o \in Targets, v \in HourArgs : Assign(o, "hour", v, set_hour(obj[o], v))

SetMinute ==
    \E o \in {1}, v \in MinuteArgs : Assign(o, "minute", v, set_minute(obj[o], v))

SetSecond ==
    \E o \in {1}, v \in SecondArgs : Assign(o, "second", v, set_second(obj[o], v))

SetMicrosecond ==
    \E o \in {1}, v \in MicrosecondArgs :
        Assign(o, "microsecond", v, set_microsecond(obj[o], v))

SetTimestamp ==
    \E o \in {1}, v \in TimestampArgs :
        Assign(o, "timestamp", v, set_timestamp(zone, obj[o], v))

\* d = Date(t) for epoch seconds t: the receiver is made anew.
Construct ==
    \E v \in {1234567890, 1256430600} :
        Assign(1, "Date", v, DateInit(FromTimestamp(zone, v), NoAgo))

\* Reading a derived view of the receiver.
View ==
    /\ ops < MaxOps
    /\ \E kind \in ViewKinds :
      \E xs \in {ViewOf(kind, obj[1])} :
        \E r \in {Returned(obj, xs)} :
            /\ \A i \in 1..Len(xs) : ValidDateTime(xs[i])
            /\ obj' = r.heap
            /\ ret' = r.ret
            /\ last' = [op |-> kind, target |-> 1, arg |-> 0, pre |-> obj,
                        out |-> "ok", text |-> ""]
            /\ ops' = ops + 1
            /\ UNCHANGED zone

\* Evaluating d + duration.
Add ==
    /\ ops < MaxOps
    /\ \E td \in Durations :
      \E xs \in {<<add(obj[1], td)>>} :
        \E r \in {Returned(obj, xs)} :
            /\ ValidDateTime(xs[1])
            /\ obj' = r.heap
            /\ ret' = r.ret
            /\ last' = [op |-> "add", target |-> 1, arg |-> td, pre |-> obj,
                        out |-> "ok", text |-> ""]
            /\ ops' = ops + 1
            /\ UNCHANGED zone

Next ==
    \/ SetMonth
    \/ SetWeek
    \/ SetDay
    \/ SetHour
    \/ SetMinute
    \/ SetSecond
    \/ SetMicrosecond
    \/ SetTimestamp
    \/ Construct
    \/ View
    \/ Add

Spec == Init /\ [][Next]_vars

(***************************************************************************)
(* Construction, the year, date and time setters, and comparison.          *)
(***************************************************************************)

\* The Dates the receiver starts as.
CallDates ==
    { DateTime(2008, 2, 29, 12, 30, 45, 250),
      DateTime(1980, 6, 2, 11, 17, 36, 0) }

\* What datetime.now() gives.
Nows == { DateTime(2010, 5, 17, 9, 15, 0, 123456) }

\* The fields of time.struct_time for 2009-02-14 00:31:30: the six of the
\* date and time, then tm_wday, tm_yday and tm_isdst.
TimeTuple == <<2009, 2, 14, 0, 31, 30, 5, 45, -1>>

\* Tuples of 3 to 9 numbers, a list, and a tuple with no such month.
SeqInputs ==
    {Input("tuple", SubSeq(TimeTuple, 1, n), "") : n \in 3..9}
        \cup {Input("list", <<2009, 2, 14>>, ""),
              Input("tuple", <<2009, 13, 1>>, "")}

\* The other values of the supported types: epoch seconds as int, float and
\* long, date(2009, 10, 2), datetime(2007, 3, 24), and None.
TypedInputs ==
    { Input("int", <<1234567890>>, "1234567890"),
      Input("float", <<1234567890>>, "1234567890.0"),
      Input("long", <<1256430600>>, "1256430600"),
      Input("date", <<2009, 10, 2>>, "2009-10-02"),
      Input("datetime", <<2007, 3, 24, 0, 0, 0, 0>>, "2007-03-24 00:00:00"),
      Input("NoneType", <<>>, "None") }

\* Values of other types: a string, True, and time.localtime(...)'s
\* struct_time.
OtherInputs ==
    { Input("str", <<>>, "hello"),
      Input("bool", <<1>>, "True"),
      Input("struct_time", TimeTuple, "time.struct_time(tm_year=2009, ...)") }

Inputs == SeqInputs \cup TypedInputs \cup OtherInputs

\* <<years_ago, months_ago, days_ago, hours_ago, minutes_ago, seconds_ago>>
AgoArgs ==
    { <<1, 0, 0, 0, 0, 0>>, <<0, 1, 3, 0, 0, 0>>, <<0, -1, -1, 0, 0, 0>>,
      <<0, 0, -1, 0, 0, 0>>, <<2, 2, 3, 4, 5, 6>> }

YearArgs == {1984, 2007}

DateArgs == { <<2009, 2, 14>> }

TimeArgs == { <<11, 2, 45, 0>> }

\* Pairs of epoch seconds a <= b: two doctest values, one value twice, and
\* the two that read 02:30 on 2009-10-25.
TimestampPairs ==
    { <<1234, 12345>>, <<12345, 12345>>, <<1256430600, 1256434200>> }

CompareOps == {"<", "=="}

\* What the receiver is compared with: a Date of the same instant, an int,
\* None, and its own datetime.
Others(x) ==
    { Operand("Date", x), Operand("int", NoDate), Operand("NoneType", NoDate),
      Operand("datetime", NoDate) }

InitCalls ==
    /\ zone \in Zones
    /\ \E x \in CallDates :
          obj = [k \in Slots |-> IF k = 1 THEN Date(x) ELSE NoDate]
    /\ ret = <<>>
    /\ last = [op |-> "init", target |-> 1, arg |-> 0, pre |-> obj,
               out |-> "ok", text |-> ""]
    /\ ops = 0

\* What a setter gives that leaves x: the primitive raises exc when x is no
\* valid datetime.
Checked(x, exc) == IF ValidDateTime(x) THEN Result(x) ELSE Raise(exc, "")

\* A call on the receiver that gives r: self.dt is bound to r.dt, or the
\* exception leaves the call and nothing is bound.
Call(name, value, r) ==
    /\ ops < MaxOps
    /\ \E res \in {r} :
           /\ obj' = IF res.exc = "none" THEN [obj EXCEPT ![1] = res.dt] ELSE obj
           /\ last' = [op |-> name, target |-> 1, arg |-> value, pre |-> obj,
                       out |-> IF res.exc = "none" THEN "ok" ELSE res.exc,
                       text |-> res.text]
    /\ ops' = ops + 1
    /\ UNCHANGED <<ret, zone>>

\* d = Date(dt)
New ==
    \E dt \in Inputs, now \in Nows :
        Call("Date", dt, DateNew(zone, now, dt, NoAgo))

\* d = Date(d.datetime, years_ago, ..., seconds_ago)
NewAgo ==
    \E ago \in AgoArgs, now \in Nows :
        Call("Date_ago", ago,
             DateNew(zone, now,
                     Input("datetime", get_date(obj[1]) \o get_time(obj[1]), ""),
                     ago))

SetYear ==
    \E v \in YearArgs :
        Call("year", v, Checked(set_year(obj[1], v), "ValueError"))

\* d.date = v, and d.date = d.date
SetDate ==
    \E v \in DateArgs \cup {get_date(obj[1])} :
        Call("date", v, Result(set_date(obj[1], v)))

\* d.time = v, and d.time = d.time
SetTime ==
    \E v \in TimeArgs \cup {get_time(obj[1])} :
        Call("time", v, Result(set_time(obj[1], v)))

\* A comparison that gives answer: no Date changes.
Answer(name, value, answer) ==
    /\ ops < MaxOps
    /\ last' = [op |-> name, target |-> 1, arg |-> value, pre |-> obj,
                out |-> answer, text |-> ""]
    /\ ops' = ops + 1
    /\ UNCHANGED <<obj, ret, zone>>

\* Date(a) < Date(b) and Date(a) == Date(b)
CompareTimestamps ==
    \E p \in TimestampPairs, op \in CompareOps, now \in Nows :
        Answer("compare_timestamps", [op |-> op, a |-> p[1], b |-> p[2]],
               Compare(op,
                       DateNew(zone, now, Input("int", <<p[1]>>, ""), NoAgo).dt,
                       Operand("Date",
                               DateNew(zone, now, Input("int", <<p[2]>>, ""), NoAgo).dt)))

\* d < other and d == other
CompareWith ==
    \E other \in Others(obj[1]), op \in CompareOps :
        Answer("compare", [op |-> op, other |-> other.type],
               Compare(op, obj[1], other))

NextCalls ==
    \/ New
    \/ NewAgo
    \/ SetYear
    \/ SetDate
    \/ SetTime
    \/ CompareTimestamps
    \/ CompareWith

SpecCalls == InitCalls /\ [][NextCalls]_vars

(***************************************************************************)
(* Properties.  After a setter call, last.pre is the state it was called   *)
(* in: Before is the target's dt then, After its dt now.                   *)
(***************************************************************************)

Before == last.pre[last.target]
After == obj[last.target]

SameTimeOfDay(a, b) ==
    /\ a.hour = b.hour
    /\ a.minute = b.minute
    /\ a.second = b.second
    /\ a.microsecond = b.microsecond

SameDate(a, b) == a.year = b.year /\ a.month = b.month /\ a.day = b.day

\* Months since year 0, counting calendar months only.
MonthIndex(x) == x.year * 12 + (x.month - 1)

\* C1: month = v moves the Date by exactly (v - current month) calendar
\* months, whatever the integer v: the year rolls when v is outside 1..12
\* (v = 13 gives January of the next year), for v in 1..12 the year stays
\* and the month reads v, and the time of day never changes.
C1_MonthSetterShiftsByMonths ==
    last.op = "month" =>
        /\ MonthIndex(After) = MonthIndex(Before) + (last.arg - Before.month)
        /\ SameTimeOfDay(After, Before)
        /\ (last.arg \in 1..12 =>
               After.year = Before.year /\ After.month = last.arg)
        /\ (last.arg = 13 =>
               After.year = Before.year + 1 /\ After.month = 1)

\* month = 13 on a Date has rolled it into January of the next year.
C1_Witness ==
    /\ last.op = "month"
    /\ last.arg = 13
    /\ After.year = Before.year + 1
    /\ After.month = 1

\* The month setter's target month does not hold the day it started from.
MonthSetterOverflows ==
    /\ last.op = "month"
    /\ LET idx == MonthIndex(Before) + (last.arg - Before.month)
       IN  Before.day > MonthRangeDays(idx \div 12, (idx % 12) + 1)

\* C2, as claimed: when the day does not exist in the target month the
\* excess days roll over into the following month (2009-01-31 with
\* month = 2 gives 2009-03-03).
C2_MonthSetterRollsDayOver ==
    MonthSetterOverflows =>
        LET idx == MonthIndex(Before) + (last.arg - Before.month)
        IN  ToOrdinal(After) =
                Ymd2Ord(idx \div 12, (idx % 12) + 1, 1) + (Before.day - 1)

\* C2, amended: when the day does not exist in the target month the Date
\* lands on the last day of the target month (2009-01-31 with month = 2
\* gives 2009-02-28); the time of day stays.
C2_MonthSetterClampsDay ==
    MonthSetterOverflows =>
        LET idx == MonthIndex(Before) + (last.arg - Before.month)
        IN  /\ After.year = idx \div 12
            /\ After.month = (idx % 12) + 1
            /\ After.day = MonthRangeDays(After.year, After.month)
            /\ SameTimeOfDay(After, Before)
            /\ (Before = DateTime(2009, 1, 31, 0, 0, 0, 0) /\ last.arg = 2 =>
                   After = DateTime(2009, 2, 28, 0, 0, 0, 0))

\* 2009-01-31 has been given month = 2 and reads 2009-02-28.
C2_Witness ==
    /\ last.op = "month"
    /\ last.arg = 2
    /\ Before = DateTime(2009, 1, 31, 0, 0, 0, 0)
    /\ After = DateTime(2009, 2, 28, 0, 0, 0, 0)

\* C3: day = v moves the Date by exactly (v - current day) days: past the
\* end of the month into the following months, at or below 0 into the
\* previous ones; v equal to the current day changes nothing; for v within
\* the month the year and month stay and the day reads v; the time of day
\* never changes.
C3_DaySetterShiftsByDays ==
    last.op = "day" =>
        /\ ToOrdinal(After) = ToOrdinal(Before) + (last.arg - Before.day)
        /\ ValidDateTime(After)
        /\ SameTimeOfDay(After, Before)
        /\ (last.arg = Before.day => After = Before)
        /\ (last.arg \in 1..MonthRangeDays(Before.year, Before.month) =>
               /\ After.year = Before.year
               /\ After.month = Before.month
               /\ After.day = last.arg)
        /\ (last.arg > MonthRangeDays(Before.year, Before.month) =>
               MonthIndex(After) > MonthIndex(Before))
        /\ (last.arg <= 0 => MonthIndex(After) < MonthIndex(Before))

\* The class doctest: 1980-06-02 11:17:36 with day += 256 is 1981-02-13.
C3_Witness ==
    /\ last.op = "day"
    /\ last.arg = 258
    /\ Before = DateTime(1980, 6, 2, 11, 17, 36, 0)
    /\ After = DateTime(1981, 2, 13, 11, 17, 36, 0)

\* Days elapsed since January 1 of x's year, from the month table.
DayOfYear0(x) == DaysBeforeMonth(x.year, x.month) + (x.day - 1)

Live == {k \in Slots : obj[k] # NoDate}

SecondsBetween(a, b) ==
    (ToOrdinal(b) - ToOrdinal(a)) * 86400 + (SecondOfDay(b) - SecondOfDay(a))

\* C5: each of hour, minute, second and microsecond = v moves the Date by
\* exactly (v - current value) of that unit on the timeline, carrying into
\* the larger fields when v is out of range; v within the field's range
\* leaves every other field alone and the field reads v.
C5_TimeSettersShiftByUnits ==
    /\ last.op = "hour" =>
          /\ SecondsBetween(Before, After) = 3600 * (last.arg - Before.hour)
          /\ After.microsecond = Before.microsecond
          /\ (last.arg \in 0..23 =>
                 After = [Before EXCEPT !.hour = last.arg])
    /\ last.op = "minute" =>
          /\ SecondsBetween(Before, After) = 60 * (last.arg - Before.minute)
          /\ After.microsecond = Before.microsecond
          /\ (last.arg \in 0..59 =>
                 After = [Before EXCEPT !.minute = last.arg])
    /\ last.op = "second" =>
          /\ SecondsBetween(Before, After) = last.arg - Before.second
          /\ After.microsecond = Before.microsecond
          /\ (last.arg \in 0..59 =>
                 After = [Before EXCEPT !.second = last.arg])
    /\ last.op = "microsecond" =>
          /\ SecondsBetween(Before, After) \in {-1, 0, 1}
          /\ SecondsBetween(Before, After) * 1000000
                 + (After.microsecond - Before.microsecond)
               = last.arg - Before.microsecond
          /\ (last.arg >= 0 /\ last.arg <= 999999 =>
                 After = [Before EXCEPT !.microsecond = last.arg])
    /\ last.op \in {"hour", "minute", "second", "microsecond"} =>
          ValidDateTime(After)

\* microsecond = 1000000 at 2037-12-31 23:59:59.999999 (one microsecond on)
\* has carried through second, minute, hour, day, month and year.
C5_Witness ==
    /\ last.op = "microsecond"
    /\ last.arg = 1000000
    /\ Before = DateTime(2037, 12, 31, 23, 59, 59, 999999)
    /\ After = DateTime(2038, 1, 1, 0, 0, 0, 0)

SetterOps ==
    {"month", "week", "day", "hour", "minute", "second", "microsecond",
     "timestamp", "Date"}

\* x without its microseconds, as a timetuple carries it.
WholeSecond(x) == [x EXCEPT !.microsecond = 0]

\* The epoch seconds strictly between MIN.timestamp and MAX.timestamp.
StrictlyInsideRange(t) ==
    /\ \A lo \in get_timestamp(zone, MIN(zone)) : lo < t
    /\ \A hi \in get_timestamp(zone, MAX) : t < hi

\* C6, as claimed: for every integer t strictly between MIN.timestamp and
\* MAX.timestamp, Date(t), or timestamp = t on any Date, followed by a
\* read of timestamp gives exactly t.
C6_TimestampRoundTrip ==
    (last.op \in {"timestamp", "Date"} /\ StrictlyInsideRange(last.arg)) =>
        \A r \in get_timestamp(zone, After) : r = last.arg

\* The local reading of epoch second t is also that of the epoch second an
\* hour earlier or later: t lies in an hour the clocks repeat.
RepeatedReading(t) ==
    \E u \in {t - 3600, t + 3600} :
        FromTimestamp(zone, u) = FromTimestamp(zone, t)

\* C6, amended: the round trip gives exactly t for every such t whose local
\* wall-clock reading is not repeated by the clocks going back (every t in
\* a zone with one fixed offset); inside a repeated hour the read gives an
\* epoch second with the same local reading, t or the one an hour away.
C6_TimestampRoundTripOutsideRepeatedHour ==
    last.op \in {"timestamp", "Date"} =>
        \A r \in get_timestamp(zone, After) :
            (r # last.arg /\ StrictlyInsideRange(last.arg)) =>
                /\ r \in {last.arg - 3600, last.arg + 3600}
                /\ FromTimestamp(zone, r) = After
                /\ RepeatedReading(last.arg)

\* timestamp = 1234567890 in the zone with summer time reads 2009-02-14
\* 00:31:30 and gives 1234567890 back.
C6_Witness ==
    /\ last.op = "timestamp"
    /\ last.arg = 1234567890
    /\ zone = "dst"
    /\ After = DateTime(2009, 2, 14, 0, 31, 30, 0)
    /\ get_timestamp(zone, After) = {1234567890}

\* No epoch second has x as its local reading: the clocks skip it.
SkippedReading(x) ==
    \A t \in {UtcSeconds(x) - StdOffset, UtcSeconds(x) - StdOffset - 3600} :
        FromTimestamp(zone, t) # WholeSecond(x)

\* The Dates the last operation made or changed.
Touched ==
    IF last.op \in SetterOps \cup {"init"}
    THEN {last.target}
    ELSE {ret[i] : i \in 1..Len(ret)}

C8_ViewsAreNewDates ==
    /\ last.op \in ViewKinds \cup {"add"} =>
          /\ obj[1] = last.pre[1]
          /\ Len(ret) >= 1
          /\ \A i \in 1..Len(ret) : ret[i] # 1 /\ ValidDateTime(obj[ret[i]])
          /\ \A i, j \in 1..Len(ret) : i # j => ret[i] # ret[j]
    /\ last.op \in SetterOps =>
          \A k \in Slots : k # last.target => obj[k] = last.pre[k]

\* A returned Date has been changed through a setter, and the receiver is
\* as it was.
C8_Witness ==
    /\ last.op \in SetterOps
    /\ last.target # 1
    /\ After # Before
    /\ obj[1] = last.pre[1]

TupleKinds == {"day_tuple", "month_tuple", "year_tuple"}

\* Days in the day, month or year of x that the tuple accessor spans.
PeriodDays(kind, x) ==
    CASE kind = "day_tuple"   -> 1
      [] kind = "month_tuple" -> MonthRangeDays(x.year, x.month)
      [] kind = "year_tuple"  -> IF IsLeap(x.year) THEN 366 ELSE 365

\* start <= receiver <= end, for the pair a tuple accessor just returned.
TupleBrackets ==
    /\ CmpDate(obj[ret[1]], obj[ret[2]]) <= 0
    /\ CmpDate(obj[ret[1]], obj[1]) <= 0
    /\ CmpDate(obj[1], obj[ret[2]]) <= 0

SequenceGiven(n) ==
    /\ last.op = "Date"
    /\ last.arg.type \in {"list", "tuple"}
    /\ Len(last.arg.seq) = n
    /\ last.arg.seq[2] \in 1..12

\* C11, as claimed: Date(seq) for a list or tuple of n numbers succeeds for
\* every n from 3 to 9, the numbers being year, month, day, hour, minute,
\* second, ..., and the fields left out being zero.
C11_SequenceOfThreeToNine ==
    \A n \in 3..9 :
        SequenceGiven(n) =>
            /\ last.out = "ok"
            /\ get_date(After) = SubSeq(last.arg.seq, 1, 3)
            /\ After.hour = ArgOrZero(last.arg.seq, 4)
            /\ After.minute = ArgOrZero(last.arg.seq, 5)
            /\ After.second = ArgOrZero(last.arg.seq, 6)
            /\ (n < 7 => After.microsecond = 0)

\* Date((2009, 2, 14, 0, 31, 30, 5, 45, -1)) has raised TypeError, and the
\* receiver is what it was.
C11_Witness ==
    /\ SequenceGiven(9)
    /\ last.out = "TypeError"
    /\ obj = last.pre

\* C12, as claimed: Date(a) < Date(b) is true for epoch seconds a < b and
\* Date(a) == Date(a) is true; two Dates of one instant are equal and
\* neither is less, however they came by it; a comparison of a Date with a
\* value that is no Date, == included, raises TypeError.
C12_ComparisonByInstant ==
    /\ last.op = "compare_timestamps" =>
          /\ (last.arg.a < last.arg.b /\ last.arg.op = "<" => last.out = "True")
          /\ (last.arg.a = last.arg.b /\ last.arg.op = "==" => last.out = "True")
    /\ last.op = "compare" =>
          IF last.arg.other = "Date"
          THEN last.out = (IF last.arg.op = "==" THEN "True" ELSE "False")
          ELSE last.out = "TypeError"

\* d == d.datetime has answered False.
C12_Witness ==
    /\ last.op = "compare"
    /\ last.arg.op = "=="
    /\ last.arg.other = "datetime"
    /\ last.out = "False"

\* C13: d.date = v gives d the date v and leaves its time of day,
\* microseconds included, as it was; d.time = v gives d the time v and
\* leaves its date as it was; so d.date = d.date and d.time = d.time leave
\* d as it was.
C13_DateAndTimeSetters ==
    /\ last.op = "date" =>
          /\ last.out = "ok"
          /\ get_date(After) = last.arg
          /\ get_time(After) = get_time(Before)
          /\ (last.arg = get_date(Before) => After = Before)
    /\ last.op = "time" =>
          /\ last.out = "ok"
          /\ get_time(After) = last.arg
          /\ get_date(After) = get_date(Before)
          /\ (last.arg = get_time(Before) => After = Before)

\* d.date = date(2009, 2, 14) at 2008-02-29 12:30:45.000250 has left
\* 2009-02-14 12:30:45.000250.
C13_Witness ==
    /\ last.op = "date"
    /\ last.arg = <<2009, 2, 14>>
    /\ Before = DateTime(2008, 2, 29, 12, 30, 45, 250)
    /\ After = DateTime(2009, 2, 14, 12, 30, 45, 250)

\* The types Date.__init__ has a branch for.
SupportedTypes ==
    {"NoneType", "float", "int", "long", "list", "tuple", "date", "datetime"}

\* Date(dt) for a dt of a supported type went the way of its type: epoch
\* seconds to local time, a sequence through datetime(...), a date to its
\* midnight, a datetime as it is, None to the current time; and the
\* ValueError of the dispatch is not what it gave.
ResolvedByItsBranch ==
    /\ last.text = ""
    /\ CASE last.arg.type \in {"float", "int", "long"} ->
              last.out = "ok" /\ After = FromTimestamp(zone, last.arg.seq[1])
         [] last.arg.type \in {"list", "tuple"} ->
              IF last.out = "ok"
              THEN get_date(After) = SubSeq(last.arg.seq, 1, 3)
              ELSE last.out \in {"TypeError", "ValueError"} /\ obj = last.pre
         [] last.arg.type = "date" ->
              last.out = "ok" /\ After = Combine(last.arg.seq, <<0, 0, 0, 0>>)
         [] last.arg.type = "datetime" ->
              last.out = "ok" /\ get_date(After) \o get_time(After) = last.arg.seq
         [] last.arg.type = "NoneType" ->
              last.out = "ok" /\ After \in Nows

\* C14, as claimed: Date(dt) for a dt that is none of absent, int, float,
\* long, list, tuple, date, datetime raises ValueError with a message that
\* names the type received, and no Date is made; a dt of a supported type
\* goes the way of its type and never reaches that error.
C14_UnsupportedTypeNamedInError ==
    last.op = "Date" =>
        IF last.arg.type \in SupportedTypes
        THEN ResolvedByItsBranch
        ELSE /\ last.out = "ValueError"
             /\ last.text = "Got " \o last.arg.type \o " instead!"
             /\ obj = last.pre

\* C14, amended: as claimed, except that the message carries str(dt), the
\* string form of the value received, and not its type; the branch is
\* chosen by the exact type, so a bool and a time.struct_time are among the
\* values that raise.
C14_UnsupportedValueShownInError ==
    last.op = "Date" =>
        IF last.arg.type \in SupportedTypes
        THEN ResolvedByItsBranch
        ELSE /\ last.out = "ValueError"
             /\ last.text = "Got " \o last.arg.text \o " instead!"
             /\ obj = last.pre

\* Date("hello") has raised ValueError with "Got hello instead!", and the
\* receiver is what it was.
C14_Witness ==
    /\ last.op = "Date"
    /\ last.arg.type = "str"
    /\ last.out = "ValueError"
    /\ last.text = "Got hello instead!"
    /\ obj = last.pre

\* year -= y; month -= m; day -= d; hour -= h; minute -= mi; second -= s
\* performed in that order on a Date with dt = x, a statement that raises
\* ending the sequence.
SettersInOrder(x, ago) ==
    ThenValid(set_year(x, x.year - ago[1]), LAMBDA a :
    ThenValid(set_month(a, a.month - ago[2]), LAMBDA b :
    ThenValid(set_day(b, b.day - ago[3]), LAMBDA c :
    ThenValid(set_hour(c, c.hour - ago[4]), LAMBDA d :
    ThenValid(set_minute(d, d.minute - ago[5]), LAMBDA e :
    set_second(e, e.second - ago[6]))))))

\* C15: Date(x, years_ago = y, ..., seconds_ago = s) is what year -= y;
\* month -= m; day -= d; hour -= h; minute -= mi; second -= s, in that
\* order, make of Date(x), and raises where they raise; with no offsets the
\* Date is x exactly; a negative offset moves it forward.
C15_OffsetsInFixedOrder ==
    /\ last.op = "Date_ago" =>
          /\ IF last.out = "ok"
             THEN After = SettersInOrder(Before, last.arg)
             ELSE ~ValidDateTime(SettersInOrder(Before, last.arg)) /\ obj = last.pre
          /\ (last.arg = <<0, 0, -1, 0, 0, 0>> =>
                 /\ last.out = "ok"
                 /\ ToOrdinal(After) = ToOrdinal(Before) + 1
                 /\ get_time(After) = get_time(Before)
                 /\ CmpDateTime(After, Before) > 0)
          /\ (last.arg = <<0, -1, -1, 0, 0, 0>>
                  /\ Before = DateTime(2008, 2, 29, 12, 30, 45, 250) =>
                 After = DateTime(2008, 3, 30, 12, 30, 45, 250))
    /\ (last.op = "Date" /\ last.arg.type = "datetime") =>
          get_date(After) \o get_time(After) = last.arg.seq

\* Date(datetime(1980, 6, 2, 11, 17, 36), 2, 2, 3, 4, 5, 6) is
\* 1978-03-30 07:12:30.
C15_Witness ==
    /\ last.op = "Date_ago"
    /\ last.arg = <<2, 2, 3, 4, 5, 6>>
    /\ Before = DateTime(1980, 6, 2, 11, 17, 36, 0)
    /\ After = DateTime(1978, 3, 30, 7, 12, 30, 0)

\* Before with its year replaced by v.
InYear(v) == [Before EXCEPT !.year = v]

\* C16, as claimed: year = v, and years_ago through it, replaces the year
\* and keeps month, day and time of day where that date exists in year v;
\* where it does not (February 29 and v no leap year) the Date becomes a
\* valid date and time in year v or next to it; and every Date is a valid
\* date and time after every construction and every setter call.
C16_YearSetterNormalizes ==
    /\ last.op = "year" =>
          /\ last.out = "ok"
          /\ IF ValidDateTime(InYear(last.arg))
             THEN After = InYear(last.arg)
             ELSE After.year \in {last.arg - 1, last.arg, last.arg + 1}
    /\ (last.op = "Date_ago" /\ last.arg = <<1, 0, 0, 0, 0, 0>>) =>
          /\ last.out = "ok"
          /\ IF ValidDateTime(InYear(Before.year - 1))
             THEN After = InYear(Before.year - 1)
             ELSE After.year \in {Before.year - 2, Before.year - 1, Before.year}
    /\ \A k \in Live : ValidDateTime(obj[k])

\* year = 2007 at 2008-02-29 12:30:45.000250 has raised ValueError, and the
\* Date is what it was.
C16_Witness ==
    /\ last.op = "year"
    /\ last.arg = 2007
    /\ Before = DateTime(2008, 2, 29, 12, 30, 45, 250)
    /\ last.out = "ValueError"
    /\ After = Before

====
